---- MODULE Spec2Model ----
(***************************************************************************)
(* A model of update_prebuilts.py: discovery of Maven artifacts            *)
(* (detect_artifacts), the transform pipeline (transform_maven_repos,      *)
(* transform_maven_lib), the AAR clean-up (process_aar) and the            *)
(* version-control guard of the script body.                               *)
(*                                                                         *)
(* Text is modelled as sequences of one-character strings so that lexical  *)
(* order, LooseVersion parsing and the artifact file-name pattern are      *)
(* computed, not assumed.                                                  *)
(***************************************************************************)
EXTENDS Integers, Sequences, FiniteSets, TLC

(***************************************************************************)
(* Characters and strings                                                  *)
(***************************************************************************)

\* The characters used by the model, in ASCII order.
AsciiOrder ==
    << "-", ".", "0", "1", "2", "3", "4", "5", "6", "7", "8", "9", ":", "_",
       "a", "b", "c", "d", "e", "f", "g", "h", "i", "j", "k", "l", "m",
       "n", "o", "p", "q", "r", "s", "t", "u", "v", "w", "x", "y", "z" >>

Ord(c) == CHOOSE i \in 1..Len(AsciiOrder) : AsciiOrder[i] = c

Digits == {"0", "1", "2", "3", "4", "5", "6", "7", "8", "9"}

IsDigit(c) == c \in Digits

IsLower(c) == Ord(c) >= Ord("a")

\* \w of the re module: letters, digits and the underscore.
WordChars ==
    { AsciiOrder[i] : i \in 1..Len(AsciiOrder) } \ {"-", ".", ":"}

DigitVal(c) == Ord(c) - Ord("0")

\* Python's < on str: lexical order by code point.
RECURSIVE StrLt(_, _)
StrLt(x, y) ==
    IF y = << >> THEN FALSE
    ELSE IF x = << >> THEN TRUE
    ELSE IF Head(x) = Head(y) THEN StrLt(Tail(x), Tail(y))
    ELSE Ord(Head(x)) < Ord(Head(y))

\* str.replace(old, new) for single characters.
Replace(s, old, new) == [i \in 1..Len(s) |-> IF s[i] = old THEN new ELSE s[i]]

\* sorted(): the elements of a set of strings as a list in ascending order.
RECURSIVE sorted(_)
sorted(S) ==
    IF S = {} THEN << >>
    ELSE LET m == CHOOSE x \in S : \A y \in S \ {x} : StrLt(x, y)
         IN  << m >> \o sorted(S \ {m})

(***************************************************************************)
(* distutils.version.LooseVersion                                          *)
(***************************************************************************)

\* component_re = (\d+ | [a-z]+ | \.): the class of a character.
CharClass(c) ==
    IF IsDigit(c) THEN "digit"
    ELSE IF IsLower(c) THEN "alpha"
    ELSE IF c = "." THEN "dot"
    ELSE "other"

\* component_re.split(vstring): maximal runs of digits, of lower-case letters
\* and of other characters; every "." is a piece of its own.
RECURSIVE SplitComponents(_, _, _)
SplitComponents(s, cur, acc) ==
    IF s = << >> THEN (IF cur = << >> THEN acc ELSE Append(acc, cur))
    ELSE LET c == Head(s)
         IN  IF cur # << >> /\ CharClass(c) = CharClass(cur[1]) /\ c # "."
             THEN SplitComponents(Tail(s), Append(cur, c), acc)
             ELSE SplitComponents(Tail(s), << c >>,
                                  IF cur = << >> THEN acc ELSE Append(acc, cur))

RECURSIVE ToInt(_)
ToInt(ds) ==
    IF ds = << >> THEN 0
    ELSE 10 * ToInt(SubSeq(ds, 1, Len(ds) - 1)) + DigitVal(ds[Len(ds)])

\* A component is an int when int(x) succeeds and the string otherwise.
Component(run) ==
    IF IsDigit(run[1]) THEN [isnum |-> TRUE, num |-> ToInt(run), str |-> << >>]
    ELSE [isnum |-> FALSE, num |-> 0, str |-> run]

\* LooseVersion.parse: the component list, with "." and empty pieces dropped.
LooseVersion(vstring) ==
    LET runs == SelectSeq(SplitComponents(vstring, << >>, << >>),
                          LAMBDA r : r # << "." >>)
    IN  [i \in 1..Len(runs) |-> Component(runs[i])]

\* LooseVersion._cmp on two component lists, as Python 3 compares lists: the
\* lists are equal, or the first differing pair decides; an int against a str
\* raises TypeError ("err").
RECURSIVE VersionCmp(_, _)
VersionCmp(a, b) ==
    IF a = << >> /\ b = << >> THEN "eq"
    ELSE IF a = << >> THEN "lt"
    ELSE IF b = << >> THEN "gt"
    ELSE IF Head(a) = Head(b) THEN VersionCmp(Tail(a), Tail(b))
    ELSE IF Head(a).isnum # Head(b).isnum THEN "err"
    ELSE IF Head(a).isnum
         THEN (IF Head(a).num < Head(b).num THEN "lt" ELSE "gt")
         ELSE (IF StrLt(Head(a).str, Head(b).str) THEN "lt" ELSE "gt")

(***************************************************************************)
(* Configuration tables and inputs                                         *)
(***************************************************************************)

\* Largest number of artifact directories in the repositories of one run.
MaxArtifactDirs == 2

gmaven_dir == "gmaven"

\* basename of temp_dir, the working directory of a run.
temp_dir == "support_tmp"

\* A second local Maven repository, for runs over several roots.
extra_dir == "extra"

KeyGA == << "g", ":", "a" >>
KeyHA == << "h", ":", "a" >>
KeyA == << "a" >>

\* The values maven_to_make takes in the model (the set of its keys; the
\* 'name' and 'path' of a key are the automatic ones).
MappingTables == { {KeyGA}, {KeyA, KeyGA} }

name_for_artifact(group_artifact) == Replace(group_artifact, ":", "_")

path_for_artifact(group_artifact) ==
    Replace(Replace(group_artifact, ".", "/"), ":", "/")

\* The values of the maven_repo_dirs argument in the model.
RepoDirLists ==
    { << gmaven_dir >>, << gmaven_dir, extra_dir >>, << extra_dir, gmaven_dir >> }

GroupIds == { << "g" >>, << "h" >> }
ArtifactIds == { << "a" >> }
VersionStrings ==
    { << "1", ".", "0", ".", "0" >>,
      << "1", ".", "0", ".", "0", "-", "1" >>,
      << "1", ".", "0", ".", "0", "-", "r", "c", "1" >> }

JarOnly == [miss |-> "none", exts |-> {"jar"}, manifest |-> FALSE]

AarWithManifest == [miss |-> "none", exts |-> {"aar"}, manifest |-> TRUE]

\* What an artifact directory holds beside its POM, and which POM field (if
\* any) is absent: [miss, exts, manifest].
DirVariants ==
    { JarOnly,
      AarWithManifest,
      [miss |-> "none", exts |-> {"aar"}, manifest |-> FALSE],
      [miss |-> "none", exts |-> {"jar", "aar"}, manifest |-> TRUE],
      [miss |-> "none", exts |-> {}, manifest |-> FALSE],
      [miss |-> "groupId", exts |-> {"jar"}, manifest |-> FALSE],
      [miss |-> "artifactId", exts |-> {"jar"}, manifest |-> FALSE],
      [miss |-> "version", exts |-> {"jar"}, manifest |-> FALSE] }

\* The lines of a POM file, by the element each line opens in column 2.
PomLines(group, artifact, ver, miss) ==
    SelectSeq(<< [tag |-> "modelVersion", text |-> << "4" >>],
                 [tag |-> "groupId", text |-> group],
                 [tag |-> "artifactId", text |-> artifact],
                 [tag |-> "version", text |-> ver],
                 [tag |-> "packaging", text |-> << "x" >>] >>,
              LAMBDA l : l.tag # miss)

File(top, dir, stem, ext, lines, manifest) ==
    [top |-> top, dir |-> dir, stem |-> stem, ext |-> ext, lines |-> lines,
     manifest |-> manifest]

\* An artifact directory <top>/<group>/<artifact>/<version>/ of a repository.
\* Group g comes in every version and, under gmaven, in every variant; group h
\* and the second repository add further candidates for the same keys.
ArtifactDirs ==
    { d \in [top : {gmaven_dir, extra_dir}, group : GroupIds,
             artifact : ArtifactIds, ver : VersionStrings,
             variant : DirVariants] :
        /\ d.top = extra_dir => d.variant = JarOnly
        /\ d.group = << "h" >> =>
              /\ d.ver = << "1", ".", "0", ".", "0" >>
              /\ d.variant \in {JarOnly, AarWithManifest} }

DirOf(d) == << d.group, d.artifact, d.ver >>

\* The files of an artifact directory: <artifact>-<version>.pom and payloads.
FilesOf(d) ==
    LET stem == d.artifact \o << "-" >> \o d.ver
    IN  { File(d.top, DirOf(d), stem, "pom",
               PomLines(d.group, d.artifact, d.ver, d.variant.miss), FALSE) }
        \cup { File(d.top, DirOf(d), stem, e, << >>,
                    e = "aar" /\ d.variant.manifest) : e \in d.variant.exts }

\* The Android.bp of the previous import, already in the destination.
OldManifest ==
    File(gmaven_dir, << >>, << "A", "n", "d", "r", "o", "i", "d" >>, "bp",
         << [tag |-> "previous import", text |-> << >>] >>, FALSE)

\* The subsets of S with at most n elements.
RECURSIVE SubsetsUpTo(_, _)
SubsetsUpTo(S, n) ==
    IF n = 0 THEN { {} }
    ELSE LET smaller == SubsetsUpTo(S, n - 1)
         IN  smaller \cup { T \cup {x} : T \in smaller, x \in S }

\* The repository contents a run may start from: no two artifact directories
\* at the same path.
Repositories ==
    { D \in SubsetsUpTo(ArtifactDirs, MaxArtifactDirs) :
        \A d1, d2 \in D :
            (d1.top = d2.top /\ DirOf(d1) = DirOf(d2)) => d1 = d2 }

(***************************************************************************)
(* State                                                                   *)
(***************************************************************************)

VARIABLES
    maven_to_make,    \* the keys of the mapping table
    maven_repo_dirs,  \* the repository roots, in the order they are walked
    fs,               \* the files on disk
    fs0,              \* the files on disk when transform_maven_repos was called
    pc,               \* position of the run
    repo_idx,         \* index in maven_repo_dirs of the root being walked
    visited,          \* POM files os.walk has yielded so far
    walk_at,          \* directory of the POM file visited last in this root
    maven_lib_info,   \* dict key -> MavenLibraryInfo, in insertion order
    diagnostics,      \* number of print_e diagnostics of detect_artifacts
    lib_idx,          \* index of the next artifact to transform
    rewrite_args,     \* the -rewrite arguments handed to pom2bp
    zip_entries,      \* process_aar: the entries of the archive
    target,           \* process_aar: paths under target_dir (files and dirs)
    aar_pc,           \* process_aar: position
    commit_first,     \* script: the --commit-first flag
    worktree,         \* git: content of each path in the working tree
    index,            \* git: content of each path in the index
    commits,          \* git: the trees of the commits of the branch, HEAD last
    git_pc,           \* script: position
    exit_status,      \* script: exit status, -1 while running
    changes0,         \* whether the run began with uncommitted changes
    worktree_try,     \* the working tree when the try block was entered
    commits_try       \* the commits when the try block was entered

pipeline_vars ==
    << maven_to_make, maven_repo_dirs, fs, fs0, pc, repo_idx, visited, walk_at,
       maven_lib_info, diagnostics, lib_idx, rewrite_args >>

aar_vars == << zip_entries, target, aar_pc >>

git_vars ==
    << commit_first, worktree, index, commits, git_pc, exit_status, changes0,
       worktree_try, commits_try >>

\* fetch_gmaven_artifact and the construction of its argument.
VARIABLES
    artifact_glob,    \* the 'group:library:version:extension' string
    artifact,         \* the GMavenArtifact object, << >> before construction
    disk,             \* files and directories below the current directory
    disk0,            \* disk when the fetch began
    requests,         \* the URLs handed to urlopen, in order
    download_to,      \* the directory fetch_gmaven_artifact returns
    fetch_pc          \* position

fetch_vars ==
    << artifact_glob, artifact, disk, disk0, requests, download_to, fetch_pc >>

vars == << pipeline_vars, aar_vars, git_vars, fetch_vars >>

\* The variables of the fetch while it is not running.
FetchIdle ==
    /\ artifact_glob = << >>
    /\ artifact = << >>
    /\ disk = {}
    /\ disk0 = {}
    /\ requests = << >>
    /\ download_to = << >>
    /\ fetch_pc = "idle"

(***************************************************************************)
(* detect_artifacts                                                        *)
(***************************************************************************)

\* The loop over the lines of a POM: the last line of each element wins.
RECURSIVE ScanPom(_, _)
ScanPom(lines, acc) ==
    IF lines = << >> THEN acc
    ELSE LET l == Head(lines)
         IN  ScanPom(Tail(lines),
                 IF l.tag = "groupId" THEN [acc EXCEPT !.group_id = l.text]
                 ELSE IF l.tag = "artifactId"
                      THEN [acc EXCEPT !.artifact_id = l.text]
                 ELSE IF l.tag = "version" THEN [acc EXCEPT !.version = l.text]
                 ELSE acc)

ReadPom(f) ==
    ScanPom(f.lines, [group_id |-> << >>, artifact_id |-> << >>, version |-> << >>])

\* Mutation of MissingArtifactData: the artifactId is not looked at.
MissingArtifactData_NoArtifactId(pom) ==
    pom.group_id = << >> \/ pom.version = << >>

MissingArtifactData(pom) ==
    pom.group_id = << >> \/ pom.artifact_id = << >> \/ pom.version = << >>

\* os.path.exists of <top>/<dir>/<stem>.<ext>
Exists(files, top, dir, stem, ext) ==
    \E f \in files : f.top = top /\ f.dir = dir /\ f.stem = stem /\ f.ext = ext

\* Mutation of LocateArtifact: the archive is tried before the jar.
LocateArtifact_AarFirst(files, pom_file) ==
    IF Exists(files, pom_file.top, pom_file.dir, pom_file.stem, "aar") THEN "aar"
    ELSE IF Exists(files, pom_file.top, pom_file.dir, pom_file.stem, "jar")
    THEN "jar"
    ELSE "none"

\* The extension of the payload beside a POM file, "none" when there is none.
LocateArtifact(files, pom_file) ==
    IF Exists(files, pom_file.top, pom_file.dir, pom_file.stem, "jar") THEN "jar"
    ELSE IF Exists(files, pom_file.top, pom_file.dir, pom_file.stem, "aar")
    THEN "aar"
    ELSE "none"

\* No key: the empty string is no key of maven_to_make.
NoKey == << >>

\* The key of maven_to_make an artifact resolves to, NoKey when unmapped.
FindMapping(table, group_id, artifact_id) ==
    LET group_artifact == group_id \o << ":" >> \o artifact_id
    IN  IF group_artifact \in table THEN group_artifact
        ELSE IF artifact_id \in table THEN artifact_id
        ELSE NoKey

\* key in maven_lib_info
HasKey(info, key) == \E i \in 1..Len(info) : info[i].key = key

Lookup(info, key) == info[CHOOSE i \in 1..Len(info) : info[i].key = key]

MavenLibraryInfo(key, group_id, artifact_id, version, dir, repo_dir, file) ==
    [key |-> key, group_id |-> group_id, artifact_id |-> artifact_id,
     version |-> version, dir |-> dir, repo_dir |-> repo_dir, file |-> file]

\* maven_lib_info[key] = entry: a new key is appended, a stored one replaced
\* in place.
StoreInfo(info, entry) ==
    IF HasKey(info, entry.key)
    THEN [i \in 1..Len(info) |->
             IF info[i].key = entry.key THEN entry ELSE info[i]]
    ELSE Append(info, entry)

\* Mutation of Newer: an equal version replaces the stored one too.
Newer_OrEqual(cmp) == cmp \in {"gt", "eq"}

\* version > maven_lib_info[key].version
Newer(cmp) == cmp = "gt"

\* The body of the loop of detect_artifacts for one POM file: what becomes of
\* maven_lib_info, whether a diagnostic is printed and whether the comparison
\* raises.
DetectPom(table, files, info, pom_file) ==
    LET pom == ReadPom(pom_file)
        ext == LocateArtifact(files, pom_file)
        key == FindMapping(table, pom.group_id, pom.artifact_id)
        version == LooseVersion(pom.version)
        entry == MavenLibraryInfo(key, pom.group_id, pom.artifact_id, version,
                                  pom_file.dir, pom_file.top,
                                  [stem |-> pom_file.stem, ext |-> ext])
        skip == [info |-> info, diagnostic |-> FALSE, raised |-> FALSE]
    IN  IF MissingArtifactData(pom) THEN [skip EXCEPT !.diagnostic = TRUE]
        ELSE IF ext = "none" THEN skip
        ELSE IF key = NoKey THEN skip
        ELSE IF ~HasKey(info, key) THEN [skip EXCEPT !.info = StoreInfo(info, entry)]
        ELSE LET cmp == VersionCmp(version, Lookup(info, key).version)
             IN  IF cmp = "err" THEN [skip EXCEPT !.raised = TRUE]
                 ELSE IF Newer(cmp)
                      THEN [skip EXCEPT !.info = StoreInfo(info, entry)]
                      ELSE skip

(***************************************************************************)
(* transform_maven_repos and transform_maven_lib                           *)
(***************************************************************************)

\* deps_rewrite, in the order the dict literal lists its items.
deps_rewrite ==
    <<
      [key |-> << "a", "u", "t", "o", "-", "c", "o", "m", "m", "o", "n" >>,
       value |-> << "a", "u", "t", "o", "_", "c", "o", "m", "m", "o", "n" >>],
      [key |-> << "a", "u", "t", "o", "-", "v", "a", "l", "u", "e", "-",
                  "a", "n", "n", "o", "t", "a", "t", "i", "o", "n", "s" >>,
       value |-> << "a", "u", "t", "o", "_", "v", "a", "l", "u", "e", "_",
                    "a", "n", "n", "o", "t", "a", "t", "i", "o", "n", "s" >>],
      [key |-> << "c", "o", "m", ".", "g", "o", "o", "g", "l", "e", ".",
                  "a", "u", "t", "o", ".", "v", "a", "l", "u", "e", ":",
                  "a", "u", "t", "o", "-", "v", "a", "l", "u", "e" >>,
       value |-> << "l", "i", "b", "a", "u", "t", "o", "_", "v", "a", "l",
                    "u", "e", "_", "p", "l", "u", "g", "i", "n" >>],
      [key |-> << "m", "o", "n", "i", "t", "o", "r" >>,
       value |-> << "a", "n", "d", "r", "o", "i", "d", "x", ".", "t", "e",
                    "s", "t", ".", "m", "o", "n", "i", "t", "o", "r" >>],
      [key |-> << "r", "u", "l", "e", "s" >>,
       value |-> << "a", "n", "d", "r", "o", "i", "d", "x", ".", "t", "e",
                    "s", "t", ".", "r", "u", "l", "e", "s" >>],
      [key |-> << "r", "u", "n", "n", "e", "r" >>,
       value |-> << "a", "n", "d", "r", "o", "i", "d", "x", ".", "t", "e",
                    "s", "t", ".", "r", "u", "n", "n", "e", "r" >>],
      [key |-> << "a", "n", "d", "r", "o", "i", "d", "x", ".", "t", "e",
                  "s", "t", ":", "c", "o", "r", "e" >>,
       value |-> << "a", "n", "d", "r", "o", "i", "d", "x", ".", "t", "e",
                    "s", "t", ".", "c", "o", "r", "e" >>],
      [key |-> << "c", "o", "m", ".", "s", "q", "u", "a", "r", "e", "u",
                  "p", ":", "j", "a", "v", "a", "p", "o", "e", "t" >>,
       value |-> << "j", "a", "v", "a", "p", "o", "e", "t" >>],
      [key |-> << "c", "o", "m", ".", "g", "o", "o", "g", "l", "e", ".",
                  "g", "u", "a", "v", "a", ":", "l", "i", "s", "t", "e",
                  "n", "a", "b", "l", "e", "f", "u", "t", "u", "r", "e" >>,
       value |-> << "g", "u", "a", "v", "a", "-", "l", "i", "s", "t", "e",
                    "n", "a", "b", "l", "e", "f", "u", "t", "u", "r", "e",
                    "-", "p", "r", "e", "b", "u", "i", "l", "t", "-", "j",
                    "a", "r" >>],
      [key |-> << "s", "q", "l", "i", "t", "e", "-", "j", "d", "b", "c" >>,
       value |-> << "x", "e", "r", "i", "a", "l", "-", "s", "q", "l", "i",
                    "t", "e", "-", "j", "d", "b", "c" >>],
      [key |-> << "g", "s", "o", "n" >>,
       value |-> << "g", "s", "o", "n", "-", "p", "r", "e", "b", "u", "i",
                    "l", "t", "-", "j", "a", "r" >>],
      [key |-> << "c", "o", "m", ".", "i", "n", "t", "e", "l", "l", "i",
                  "j", ":", "a", "n", "n", "o", "t", "a", "t", "i", "o",
                  "n", "s" >>,
       value |-> << "j", "e", "t", "b", "r", "a", "i", "n", "s", "-", "a",
                    "n", "n", "o", "t", "a", "t", "i", "o", "n", "s" >>],
      [key |-> << "j", "a", "v", "a", "x", ".", "a", "n", "n", "o", "t",
                  "a", "t", "i", "o", "n", ":", "j", "a", "v", "a", "x",
                  ".", "a", "n", "n", "o", "t", "a", "t", "i", "o", "n",
                  "-", "a", "p", "i" >>,
       value |-> << "j", "a", "v", "a", "x", "-", "a", "n", "n", "o", "t",
                    "a", "t", "i", "o", "n", "-", "a", "p", "i", "-", "p",
                    "r", "e", "b", "u", "i", "l", "t", "-", "h", "o", "s",
                    "t", "-", "j", "a", "r" >>],
      [key |-> << "o", "r", "g", ".", "r", "o", "b", "o", "l", "e", "c",
                  "t", "r", "i", "c", ":", "r", "o", "b", "o", "l", "e",
                  "c", "t", "r", "i", "c" >>,
       value |-> << "R", "o", "b", "o", "l", "e", "c", "t", "r", "i", "c",
                    "_", "a", "l", "l", "-", "t", "a", "r", "g", "e", "t" >>],
      [key |-> << "o", "r", "g", ".", "j", "e", "t", "b", "r", "a", "i",
                  "n", "s", ".", "k", "o", "t", "l", "i", "n", ":", "k",
                  "o", "t", "l", "i", "n", "-", "s", "t", "d", "l", "i",
                  "b", "-", "c", "o", "m", "m", "o", "n" >>,
       value |-> << "k", "o", "t", "l", "i", "n", "-", "s", "t", "d", "l",
                    "i", "b" >>],
      [key |-> << "o", "r", "g", ".", "j", "e", "t", "b", "r", "a", "i",
                  "n", "s", ".", "k", "o", "t", "l", "i", "n", "x", ":",
                  "k", "o", "t", "l", "i", "n", "x", "-", "c", "o", "r",
                  "o", "u", "t", "i", "n", "e", "s", "-", "c", "o", "r",
                  "e" >>,
       value |-> << "k", "o", "t", "l", "i", "n", "x", "_", "c", "o", "r",
                    "o", "u", "t", "i", "n", "e", "s" >>],
      [key |-> << "o", "r", "g", ".", "j", "e", "t", "b", "r", "a", "i",
                  "n", "s", ".", "k", "o", "t", "l", "i", "n", "x", ":",
                  "k", "o", "t", "l", "i", "n", "x", "-", "c", "o", "r",
                  "o", "u", "t", "i", "n", "e", "s", "-", "a", "n", "d",
                  "r", "o", "i", "d" >>,
       value |-> << "k", "o", "t", "l", "i", "n", "x", "_", "c", "o", "r",
                    "o", "u", "t", "i", "n", "e", "s", "_", "a", "n", "d",
                    "r", "o", "i", "d" >>],
      [key |-> << "o", "r", "g", ".", "j", "e", "t", "b", "r", "a", "i",
                  "n", "s", ".", "k", "o", "t", "l", "i", "n", "x", ":",
                  "k", "o", "t", "l", "i", "n", "x", "-", "m", "e", "t",
                  "a", "d", "a", "t", "a", "-", "j", "v", "m" >>,
       value |-> << "k", "o", "t", "l", "i", "n", "x", "_", "m", "e", "t",
                    "a", "d", "a", "t", "a", "_", "j", "v", "m" >>]
    >>

\* update_gmaven calls transform_maven_repos(['gmaven'], gmaven_dir,
\* extract_res=False): process_aar is not part of a run of the pipeline.
extract_res == FALSE

IsPrefix(p, s) == Len(p) <= Len(s) /\ SubSeq(s, 1, Len(p)) = p

\* The file is at or below the directory <top>/<dir>.
Under(f, top, dir) == f.top = top /\ IsPrefix(dir, f.dir)

\* mv(src_path, dst_path) on directories: an existing destination is removed,
\* then the source tree, if it exists, is moved to the destination path.
mv(files, src_top, src_dir, dst_top, dst_dir) ==
    LET kept == { f \in files : ~Under(f, dst_top, dst_dir) }
        moving == { f \in kept : Under(f, src_top, src_dir) }
        moved(f) == [f EXCEPT !.top = dst_top,
                              !.dir = dst_dir \o SubSeq(f.dir, Len(src_dir) + 1,
                                                        Len(f.dir))]
    IN  (kept \ moving) \cup { moved(f) : f \in moving }

\* The positions a run of one or more characters of the set chars, started at
\* a position of S, can end at.
RunPlus(v, S, chars) ==
    { j \in 1..Len(v) :
        \E i \in S : i < j /\ \A k \in (i + 1)..j : v[k] \in chars }

\* The positions after the literal character c read at a position of S.
Lit(v, S, c) == { i + 1 : i \in { k \in S : k < Len(v) /\ v[k + 1] = c } }

\* (?:-[\d.]+)* : the positions reachable by any number of repetitions.
RECURSIVE BuildTags(_, _)
BuildTags(v, S) ==
    LET more == S \cup RunPlus(v, Lit(v, S, "-"), Digits \cup {"."})
    IN  IF more = S THEN S ELSE BuildTags(v, more)

\* \d+\.\d+\.\d+(?:-\w+\d+)?(?:-[\d.]+)* matches the whole of v.
VersionPatternMatches(v) ==
    LET d1 == RunPlus(v, {0}, Digits)
        d2 == RunPlus(v, Lit(v, d1, "."), Digits)
        d3 == RunPlus(v, Lit(v, d2, "."), Digits)
        pre == RunPlus(v, RunPlus(v, Lit(v, d3, "-"), WordChars), Digits)
    IN  Len(v) \in BuildTags(v, d3 \cup pre)

\* artifact_pattern.match(<stem>.<ext>) is not None.
artifact_pattern(stem, ext) ==
    /\ ext \in {"jar", "aar"}
    /\ \E k \in 2..Len(stem) :
          /\ stem[k] = "-"
          /\ VersionPatternMatches(SubSeq(stem, k + 1, Len(stem)))

AndroidManifest == << "A", "n", "d", "r", "o", "i", "d", "M", "a", "n", "i", "f", "e", "s", "t" >>

ManifestsDir == << "m", "a", "n", "i", "f", "e", "s", "t", "s" >>

AndroidBp == << "A", "n", "d", "r", "o", "i", "d" >>

\* transform_maven_lib: the files afterwards and whether it raised.
transform_maven_lib(files, artifact_info) ==
    LET new_dir == artifact_info.dir
        moved == mv(files, artifact_info.repo_dir, artifact_info.dir,
                    temp_dir, new_dir)
        file == artifact_info.file
        make_lib_name == name_for_artifact(artifact_info.key)
    IN  IF ~artifact_pattern(file.stem, file.ext)
        THEN [fs |-> moved, raised |-> TRUE]
        ELSE IF file.ext = "aar"
        THEN IF \E f \in moved :
                   /\ f.top = temp_dir /\ f.dir = new_dir
                   /\ f.stem = file.stem /\ f.ext = "aar" /\ f.manifest
             THEN [fs |-> moved \cup
                       { File(temp_dir, << ManifestsDir, make_lib_name >>,
                              AndroidManifest, "xml", << >>, FALSE) },
                   raised |-> FALSE]
             ELSE [fs |-> moved, raised |-> TRUE]
        ELSE [fs |-> moved, raised |-> FALSE]

HasColon(name) == \E i \in 1..Len(name) : name[i] = ":"

\* Mutation of rewriteNames: the keys with a colon, sorted, then the bare
\* keys, sorted.
rewriteNames_ColonFirst(table) ==
    sorted({ name \in table : HasColon(name) })
        \o sorted({ name \in table : ~HasColon(name) })

\* sorted() of the keys with a colon followed by the keys without one.
rewriteNames(table) ==
    sorted({ name \in table : HasColon(name) }
               \cup { name \in table : ~HasColon(name) })

\* The -rewrite arguments, in the order args.extend adds them.
RewriteArgs(table) ==
    LET names == rewriteNames(table)
    IN  [i \in 1..Len(names) |->
            [from |-> "maven_to_make", key |-> names[i],
             value |-> name_for_artifact(names[i])]]
        \o [i \in 1..Len(deps_rewrite) |->
               [from |-> "deps_rewrite", key |-> deps_rewrite[i].key,
                value |-> deps_rewrite[i].value]]

(***************************************************************************)
(* The pipeline: transform_maven_repos(maven_repo_dirs, gmaven_dir)        *)
(***************************************************************************)

\* The variables of process_aar and of the script body while they are not
\* running.
AarIdle == zip_entries = {} /\ target = {} /\ aar_pc = "idle"

GitIdle ==
    /\ commit_first = FALSE
    /\ worktree = << >>
    /\ index = << >>
    /\ commits = << >>
    /\ git_pc = "idle"
    /\ exit_status = -1
    /\ changes0 = FALSE
    /\ worktree_try = << >>
    /\ commits_try = << >>

Init ==
    /\ maven_to_make \in MappingTables
    /\ maven_repo_dirs \in RepoDirLists
    /\ \E D \in Repositories :
          /\ \A d \in D : \E i \in 1..Len(maven_repo_dirs) : maven_repo_dirs[i] = d.top
          /\ fs = UNION { FilesOf(d) : d \in D } \cup { OldManifest }
    /\ fs0 = fs
    /\ pc = "detect"
    /\ repo_idx = 1
    /\ visited = {}
    /\ walk_at = << >>
    /\ maven_lib_info = << >>
    /\ diagnostics = 0
    /\ lib_idx = 1
    /\ rewrite_args = << >>
    /\ AarIdle
    /\ GitIdle
    /\ FetchIdle

RECURSIVE CommonPrefixLen(_, _)
CommonPrefixLen(a, b) ==
    IF a = << >> \/ b = << >> \/ Head(a) # Head(b) THEN 0
    ELSE 1 + CommonPrefixLen(Tail(a), Tail(b))

\* The POM files of the root being walked that os.walk has not yielded yet.
Unvisited ==
    { f \in fs : f.ext = "pom" /\ f.top = maven_repo_dirs[repo_idx] } \ visited

\* os.walk lists a directory in any order but finishes a subtree before it
\* leaves it: the next file is one nearest to the directory visited last.
WalkNext(f) ==
    \A u \in Unvisited :
        CommonPrefixLen(walk_at, u.dir) <= CommonPrefixLen(walk_at, f.dir)

\* One iteration of "for file in files" on a file whose name ends in ".pom".
VisitPom(f) ==
    /\ pc = "detect"
    /\ repo_idx <= Len(maven_repo_dirs)
    /\ f \in Unvisited
    /\ WalkNext(f)
    /\ LET r == DetectPom(maven_to_make, fs, maven_lib_info, f)
       IN  /\ maven_lib_info' = r.info
           /\ diagnostics' = diagnostics + (IF r.diagnostic THEN 1 ELSE 0)
           /\ pc' = IF r.raised THEN "detect_raised" ELSE pc
    /\ visited' = visited \cup {f}
    /\ walk_at' = f.dir
    /\ UNCHANGED << maven_to_make, maven_repo_dirs, fs, fs0, repo_idx, lib_idx,
                    rewrite_args, aar_vars, git_vars, fetch_vars >>

\* The walk of one root is over: "for repo_dir in maven_repo_dirs" moves on.
NextRepoDir ==
    /\ pc = "detect"
    /\ repo_idx <= Len(maven_repo_dirs)
    /\ Unvisited = {}
    /\ repo_idx' = repo_idx + 1
    /\ walk_at' = << >>
    /\ UNCHANGED << maven_to_make, maven_repo_dirs, fs, fs0, pc, visited,
                    maven_lib_info, diagnostics, lib_idx, rewrite_args, aar_vars, git_vars, fetch_vars >>

\* Mutation of NothingDetected: the check is left out.
NothingDetected_Unchecked(info) == FALSE

\* not maven_lib_info
NothingDetected(info) == info = << >>

\* detect_artifacts returns; transform_maven_repos returns False when nothing
\* was detected.
DetectReturn ==
    /\ pc = "detect"
    /\ repo_idx > Len(maven_repo_dirs)
    /\ pc' = IF NothingDetected(maven_lib_info) THEN "failed" ELSE "transform"
    /\ UNCHANGED << maven_to_make, maven_repo_dirs, fs, fs0, repo_idx, visited,
                    walk_at, maven_lib_info, diagnostics, lib_idx, rewrite_args,
                    aar_vars, git_vars, fetch_vars >>

\* One iteration of "for info in maven_lib_info.values()".
TransformLib ==
    /\ pc = "transform"
    /\ lib_idx <= Len(maven_lib_info)
    /\ LET r == transform_maven_lib(fs, maven_lib_info[lib_idx])
       IN  /\ fs' = r.fs
           /\ pc' = IF r.raised THEN "transform_raised" ELSE pc
    /\ lib_idx' = lib_idx + 1
    /\ UNCHANGED << maven_to_make, maven_repo_dirs, fs0, repo_idx, visited,
                    walk_at, maven_lib_info, diagnostics, rewrite_args, aar_vars, git_vars, fetch_vars >>

\* Android.bp is opened for writing and pom2bp runs with the arguments;
\* check_call raises when it exits non-zero.
RunPom2bp ==
    /\ pc = "transform"
    /\ lib_idx > Len(maven_lib_info)
    /\ rewrite_args' = RewriteArgs(maven_to_make)
    /\ fs' = fs \cup { File(temp_dir, << >>, AndroidBp, "bp", << >>, FALSE) }
    /\ \E status \in {0, 1} : pc' = IF status = 0 THEN "replace" ELSE "pom2bp_raised"
    /\ UNCHANGED << maven_to_make, maven_repo_dirs, fs0, repo_idx, visited,
                    walk_at, maven_lib_info, diagnostics, lib_idx, aar_vars, git_vars, fetch_vars >>

\* mv(working_dir, local_repo); return True.
ReplaceOldDirectory ==
    /\ pc = "replace"
    /\ fs' = mv(fs, temp_dir, << >>, gmaven_dir, << >>)
    /\ pc' = "done"
    /\ UNCHANGED << maven_to_make, maven_repo_dirs, fs0, repo_idx, visited,
                    walk_at, maven_lib_info, diagnostics, lib_idx, rewrite_args,
                    aar_vars, git_vars, fetch_vars >>

Next ==
    \/ \E f \in fs : VisitPom(f)
    \/ NextRepoDir
    \/ DetectReturn
    \/ TransformLib
    \/ RunPom2bp
    \/ ReplaceOldDirectory

Spec == Init /\ [][Next]_vars

(***************************************************************************)
(* Properties of discovery and of the pipeline                             *)
(***************************************************************************)

PomTags == {"groupId", "artifactId", "version"}

\* The POM file has no line for one of the three elements.
LacksField(f) ==
    \E tag \in PomTags : \A i \in 1..Len(f.lines) : f.lines[i].tag # tag

\* The text of the element in a POM file that has a line for it.
FieldOf(f, tag) ==
    f.lines[CHOOSE i \in 1..Len(f.lines) :
                /\ f.lines[i].tag = tag
                /\ \A j \in (i + 1)..Len(f.lines) : f.lines[j].tag # tag].text

HasPayload(f, ext) ==
    \E p \in fs0 : p.top = f.top /\ p.dir = f.dir /\ p.stem = f.stem /\ p.ext = ext

InRoots(top) == \E i \in 1..Len(maven_repo_dirs) : maven_repo_dirs[i] = top

\* The POM files that compete for a key of the mapping table: below one of
\* the roots, with the three elements, a payload beside them, and resolving
\* to the key.
Candidates(key) ==
    { f \in fs0 :
        /\ f.ext = "pom" /\ InRoots(f.top) /\ ~LacksField(f)
        /\ HasPayload(f, "jar") \/ HasPayload(f, "aar")
        /\ key = FindMapping(maven_to_make, FieldOf(f, "groupId"),
                             FieldOf(f, "artifactId")) }

VersionOf(f) == LooseVersion(FieldOf(f, "version"))

EntriesFor(key) == { i \in 1..Len(maven_lib_info) : maven_lib_info[i].key = key }

DetectReturned == pc \notin {"detect", "detect_raised"}

\* os.walk yields the POM file f in this step.
Visiting(f) == pc = "detect" /\ f \notin visited /\ visited' = visited \cup {f}

DestFiles(files) == { f \in files : f.top = gmaven_dir }

StagedFiles(files) == { f \in files : f.top = temp_dir }

\* C1: whatever the roots and the visit order, detect_artifacts returns, and
\* returns for every key that has candidates exactly one entry, whose version
\* no candidate for the key exceeds.
C1_GreatestVersionPerKey ==
    /\ pc # "detect_raised"
    /\ DetectReturned =>
          \A key \in maven_to_make :
              Candidates(key) # {} =>
                  /\ Cardinality(EntriesFor(key)) = 1
                  /\ \A c \in Candidates(key) :
                        VersionCmp(VersionOf(c), Lookup(maven_lib_info, key).version)
                            \in {"lt", "eq"}

\* C2: a run in which discovery resolved nothing returns failure, and only
\* such a run does; at that return every file is where it was at the call:
\* nothing under the destination changed and nothing was staged.
C2_NothingDetectedLeavesDestination ==
    /\ pc = "failed" =>
          /\ maven_lib_info = << >>
          /\ DestFiles(fs) = DestFiles(fs0)
          /\ StagedFiles(fs) = {}
    /\ (DetectReturned /\ pc # "failed") => maven_lib_info # << >>

\* Witness of C2: the run returned failure after visiting POM files, with
\* files in the destination.
C2_Witness ==
    /\ pc = "failed"
    /\ visited # {}
    /\ \E f \in DestFiles(fs0) : f.ext = "pom"

\* C3: when pom2bp exits non-zero or a transform raises, the destination
\* directory holds what it held before the run.
C3_FailedRunLeavesDestination ==
    pc \in {"transform_raised", "pom2bp_raised"} =>
        DestFiles(fs) = DestFiles(fs0)

\* C7: a POM file without groupId, artifactId or version is skipped with one
\* diagnostic: nothing is raised, maven_lib_info is left as it was and the
\* walk goes on.
C7_MissingFieldSkipped ==
    [][\A f \in fs :
          (Visiting(f) /\ LacksField(f)) =>
              /\ maven_lib_info' = maven_lib_info
              /\ diagnostics' = diagnostics + 1
              /\ pc' = "detect"]_vars

\* Witness of C7: a POM file lacking an element was visited after an entry
\* had been stored, and the walk is still going on.
C7_Witness ==
    /\ pc = "detect"
    /\ diagnostics = 1
    /\ maven_lib_info # << >>
    /\ \E f \in visited : LacksField(f) /\ walk_at = f.dir

\* C8 as claimed: the archive is tried first, so an entry stored for a POM
\* that has both payloads beside it names the .aar.
C8_ArchiveFirst ==
    \A i \in 1..Len(maven_lib_info) :
        LET e == maven_lib_info[i]
        IN  (/\ Exists(fs0, e.repo_dir, e.dir, e.file.stem, "aar")
             /\ Exists(fs0, e.repo_dir, e.dir, e.file.stem, "jar"))
                => e.file.ext = "aar"

\* C8 amended: the jar is tried first and the archive second, so an entry
\* names the .jar whenever one is beside the POM and the .aar only otherwise;
\* a POM with neither is skipped without a diagnostic.
C8_JarFirst ==
    [][\A f \in fs :
          (Visiting(f) /\ ~LacksField(f)) =>
              /\ (~HasPayload(f, "jar") /\ ~HasPayload(f, "aar")) =>
                    /\ maven_lib_info' = maven_lib_info
                    /\ diagnostics' = diagnostics
                    /\ pc' = "detect"
              /\ \A i \in 1..Len(maven_lib_info') :
                    LET e == maven_lib_info'[i]
                    IN  (e.repo_dir = f.top /\ e.dir = f.dir) =>
                            e.file.ext = IF HasPayload(f, "jar") THEN "jar"
                                         ELSE "aar"]_vars

\* Witness of C8: an entry stored for a POM with both payloads names the jar.
C8_Witness ==
    \E i \in 1..Len(maven_lib_info) :
        LET e == maven_lib_info[i]
        IN  /\ Exists(fs0, e.repo_dir, e.dir, e.file.stem, "aar")
            /\ Exists(fs0, e.repo_dir, e.dir, e.file.stem, "jar")
            /\ e.file.ext = "jar"

MappingRules == SelectSeq(rewrite_args, LAMBDA a : a.from = "maven_to_make")

OverrideRules == SelectSeq(rewrite_args, LAMBDA a : a.from = "deps_rewrite")

Ascending(rules) ==
    \A i, j \in 1..Len(rules) : i < j => StrLt(rules[i].key, rules[j].key)

\* Every rule of the mapping table precedes every rule of deps_rewrite.
OverridesLast ==
    \A i, j \in 1..Len(rewrite_args) :
        (rewrite_args[i].from = "maven_to_make"
            /\ rewrite_args[j].from = "deps_rewrite") => i < j

OnePerKey ==
    /\ Len(MappingRules) = Cardinality(maven_to_make)
    /\ \A key \in maven_to_make :
          \E i \in 1..Len(MappingRules) :
              /\ MappingRules[i].key = key
              /\ MappingRules[i].value = name_for_artifact(key)

\* C9 as claimed: the keys with a colon in lexical order, then the bare keys
\* in lexical order, then the rules of deps_rewrite in lexical order.
C9_ColonKeysFirstOverridesSorted ==
    rewrite_args # << >> =>
        /\ OnePerKey
        /\ OverridesLast
        /\ \A i, j \in 1..Len(MappingRules) :
              i < j =>
                  LET a == MappingRules[i].key
                      b == MappingRules[j].key
                  IN  \/ HasColon(a) /\ ~HasColon(b)
                      \/ HasColon(a) = HasColon(b) /\ StrLt(a, b)
        /\ Ascending(OverrideRules)

\* C9 amended: one rule per key of the mapping table, all keys together in
\* lexical order whether or not they hold a colon, then the rules of
\* deps_rewrite in the order the table lists them; every rule of deps_rewrite
\* comes after every rule of the mapping table.
C9_KeysSortedOverridesAsListed ==
    rewrite_args # << >> =>
        /\ OnePerKey
        /\ OverridesLast
        /\ Ascending(MappingRules)
        /\ Len(OverrideRules) = Len(deps_rewrite)
        /\ \A i \in 1..Len(OverrideRules) :
              /\ OverrideRules[i].key = deps_rewrite[i].key
              /\ OverrideRules[i].value = deps_rewrite[i].value

\* Witness of C9: pom2bp was run for a table with a bare key and a key with a
\* colon.
C9_Witness ==
    /\ rewrite_args # << >>
    /\ \E a, b \in maven_to_make : HasColon(a) /\ ~HasColon(b)

\* C10: a POM whose version equals the version stored for its key does not
\* replace the stored entry.
C10_TieKeepsFirstSeen ==
    [][\A f \in fs :
          (/\ Visiting(f) /\ ~LacksField(f)
           /\ HasPayload(f, "jar") \/ HasPayload(f, "aar")) =>
              LET key == FindMapping(maven_to_make, FieldOf(f, "groupId"),
                                     FieldOf(f, "artifactId"))
              IN  (/\ EntriesFor(key) # {}
                   /\ VersionOf(f) = Lookup(maven_lib_info, key).version)
                      => /\ maven_lib_info' = maven_lib_info
                         /\ pc' = "detect"]_vars

\* Witness of C10: two candidates for a key with equal versions were visited,
\* one in each root, and the entry is the one of the root walked first.
C10_Witness ==
    /\ Len(maven_repo_dirs) = 2
    /\ \E key \in maven_to_make :
          \E a, b \in Candidates(key) \cap visited :
              /\ a.top = maven_repo_dirs[1] /\ b.top = maven_repo_dirs[2]
              /\ VersionOf(a) = VersionOf(b)
              /\ EntriesFor(key) # {}
              /\ Lookup(maven_lib_info, key).repo_dir = a.top
              /\ Lookup(maven_lib_info, key).dir = a.dir
              /\ Lookup(maven_lib_info, key).version = VersionOf(a)

(***************************************************************************)
(* process_aar(artifact_file, target_dir)                                  *)
(***************************************************************************)

\* Largest number of members of the archive handed to process_aar.
MaxZipEntries == 4

\* The variables of the pipeline while it is not running.
PipelineIdle ==
    /\ maven_to_make = {}
    /\ maven_repo_dirs = << >>
    /\ fs = {}
    /\ fs0 = {}
    /\ pc = "idle"
    /\ repo_idx = 0
    /\ visited = {}
    /\ walk_at = << >>
    /\ maven_lib_info = << >>
    /\ diagnostics = 0
    /\ lib_idx = 0
    /\ rewrite_args = << >>

\* Paths relative to target_dir, as lists of names.
blacklist_files ==
    { << "annotations.zip" >>, << "public.txt" >>, << "R.txt" >>,
      << "AndroidManifest.xml" >>, << "libs", "noto-emoji-compat-java.jar" >> }

ClassesJar == << "classes.jar" >>

Entry(path, isdir) == [path |-> path, isdir |-> isdir]

\* The members an archive of the model is made of: files, and directory
\* members (which extract to empty directories).
ZipMembers ==
    { Entry(ClassesJar, FALSE),
      Entry(<< "AndroidManifest.xml" >>, FALSE),
      Entry(<< "R.txt" >>, FALSE),
      Entry(<< "res", "values", "values.xml" >>, FALSE),
      Entry(<< "libs", "noto-emoji-compat-java.jar" >>, FALSE),
      Entry(<< "libs", "other.jar" >>, FALSE),
      Entry(<< "jni" >>, TRUE),
      Entry(<< "assets", "fonts" >>, TRUE) }

\* zip.extractall(target_dir): every member, with the directories above it.
extractall(members) ==
    members \cup UNION { { Entry(SubSeq(e.path, 1, k), TRUE) :
                             k \in 1..(Len(e.path) - 1) } : e \in members }

\* os.listdir(<target_dir>/<path>)
listdir(tree, path) ==
    { e \in tree : Len(e.path) = Len(path) + 1 /\ IsPrefix(path, e.path) }

RECURSIVE WalkRemovingEmptyDirs(_, _)
RECURSIVE WalkSubdirs(_, _)

\* os.walk(top), top-down, with the loop body run on each directory it
\* yields: the sub-directories that are empty at that moment are removed,
\* then the walk descends into each sub-directory it listed (one that was
\* removed yields nothing).
WalkRemovingEmptyDirs(tree, top) ==
    LET dirs == { e.path : e \in { c \in listdir(tree, top) : c.isdir } }
        empty == { d \in dirs : listdir(tree, d) = {} }
    IN  WalkSubdirs(tree \ { Entry(d, TRUE) : d \in empty }, dirs)

WalkSubdirs(tree, dirs) ==
    IF dirs = {} THEN tree
    ELSE LET d == CHOOSE x \in dirs : TRUE
         IN  WalkSubdirs(WalkRemovingEmptyDirs(tree, d), dirs \ {d})

AarInit ==
    /\ zip_entries \in SubsetsUpTo(ZipMembers, MaxZipEntries)
    /\ target = {}
    /\ aar_pc = "extract"
    /\ PipelineIdle
    /\ GitIdle
    /\ FetchIdle

\* with zipfile.ZipFile(artifact_file) as zip: zip.extractall(target_dir)
ExtractAll ==
    /\ aar_pc = "extract"
    /\ target' = extractall(zip_entries)
    /\ aar_pc' = "classes_jar"
    /\ UNCHANGED << zip_entries, pipeline_vars, git_vars, fetch_vars >>

\* Remove classes.jar
RemoveClassesJar ==
    /\ aar_pc = "classes_jar"
    /\ target' = target \ { Entry(ClassesJar, FALSE) }
    /\ aar_pc' = "empty_dirs"
    /\ UNCHANGED << zip_entries, pipeline_vars, git_vars, fetch_vars >>

\* Remove or preserve empty dirs.
RemoveEmptyDirs ==
    /\ aar_pc = "empty_dirs"
    /\ target' = WalkRemovingEmptyDirs(target, << >>)
    /\ aar_pc' = "cruft"
    /\ UNCHANGED << zip_entries, pipeline_vars, git_vars, fetch_vars >>

\* Remove top-level cruft.
RemoveBlacklisted ==
    /\ aar_pc = "cruft"
    /\ target' = target \ { Entry(file, FALSE) : file \in blacklist_files }
    /\ aar_pc' = "done"
    /\ UNCHANGED << zip_entries, pipeline_vars, git_vars, fetch_vars >>

AarNext ==
    \/ ExtractAll
    \/ RemoveClassesJar
    \/ RemoveEmptyDirs
    \/ RemoveBlacklisted

SpecAar == AarInit /\ [][AarNext]_vars

\* C4: after process_aar the target directory holds no classes.jar, no
\* blacklisted path and no directory that is empty now but held something
\* when the archive had been extracted.
C4_NoCruftNoEmptiedDirs ==
    aar_pc = "done" =>
        /\ Entry(ClassesJar, FALSE) \notin target
        /\ \A file \in blacklist_files : Entry(file, FALSE) \notin target
        /\ \A e \in target :
              (e.isdir /\ listdir(target, e.path) = {}) =>
                  listdir(extractall(zip_entries), e.path) = {}

(***************************************************************************)
(* The script body: the version-control guard around update_gmaven         *)
(***************************************************************************)

\* Number of distinct contents a file of the model takes; 0 is "absent".
MaxContent == 2

TrackedSource == "src.txt"
UntrackedNotes == "notes.txt"
GmavenLib == "gmaven/lib.jar"
GmavenDownload == "gmaven/new.jar"
StagedLib == "support_tmp/lib.jar"

GitPaths == { TrackedSource, UntrackedNotes, GmavenLib, GmavenDownload, StagedLib }

GmavenPaths == { GmavenLib, GmavenDownload }

\* The tree of the commit the run starts on.
BaseTree ==
    [p \in GitPaths |-> IF p \in {TrackedSource, GmavenLib} THEN 1 ELSE 0]

HEAD(cs) == cs[Len(cs)]

\* git diff --quiet: a path of the index differs in the working tree.
GitDiff(wt, idx) == \E p \in GitPaths : idx[p] # 0 /\ wt[p] # idx[p]

\* git diff --quiet --cached: the index differs from HEAD.
GitDiffCached(idx, head) == \E p \in GitPaths : idx[p] # head[p]

\* Mutation of uncommittedChangesExist: the index is not compared with HEAD.
uncommittedChangesExist_NoCached(wt, idx, head) == GitDiff(wt, idx)

uncommittedChangesExist(wt, idx, head) ==
    GitDiff(wt, idx) \/ GitDiffCached(idx, head)

\* git add -u: the index takes the working-tree content of every path it holds.
GitAddUpdate(wt, idx) == [p \in GitPaths |-> IF idx[p] # 0 THEN wt[p] ELSE idx[p]]

\* git add gmaven
GitAddGmaven(wt, idx) == [p \in GitPaths |-> IF p \in GmavenPaths THEN wt[p] ELSE idx[p]]

\* git add -Af . : every path of the working tree, untracked and ignored too.
GitAddAll(wt, idx) == wt

GitInit ==
    /\ commit_first \in BOOLEAN
    /\ commits = << BaseTree >>
    /\ \E staged, edited \in 1..MaxContent, notes \in {0, 1} :
          /\ index = [BaseTree EXCEPT ![TrackedSource] = staged]
          /\ worktree = [BaseTree EXCEPT ![TrackedSource] = edited,
                                         ![UntrackedNotes] = notes]
    /\ git_pc = "check1"
    /\ exit_status = -1
    /\ changes0 = (index # BaseTree \/ worktree[TrackedSource] # index[TrackedSource])
    /\ worktree_try = << >>
    /\ commits_try = << >>
    /\ PipelineIdle
    /\ AarIdle
    /\ FetchIdle

\* if uncommittedChangesExist(): if args.commit_first: ...
FirstCheck ==
    /\ git_pc = "check1"
    /\ git_pc' = IF uncommittedChangesExist(worktree, index, HEAD(commits))
                    /\ commit_first
                 THEN "checkpoint" ELSE "check2"
    /\ UNCHANGED << commit_first, worktree, index, commits, exit_status, changes0,
                    worktree_try, commits_try, pipeline_vars, aar_vars, fetch_vars >>

\* git add -u; git commit -m 'save working state'. git commit exits non-zero
\* when nothing is staged, and check_call raises: the script ends with a
\* traceback and status 1.
Checkpoint ==
    /\ git_pc = "checkpoint"
    /\ index' = GitAddUpdate(worktree, index)
    /\ IF index' = HEAD(commits)
       THEN /\ git_pc' = "exited"
            /\ exit_status' = 1
            /\ UNCHANGED commits
       ELSE /\ commits' = Append(commits, index')
            /\ git_pc' = "check2"
            /\ UNCHANGED exit_status
    /\ UNCHANGED << commit_first, worktree, changes0, worktree_try, commits_try,
                    pipeline_vars, aar_vars, fetch_vars >>

\* if uncommittedChangesExist(): print_e('FAIL: ...'); sys.exit(1)
SecondCheck ==
    /\ git_pc = "check2"
    /\ IF uncommittedChangesExist(worktree, index, HEAD(commits))
       THEN /\ git_pc' = "exited"
            /\ exit_status' = 1
            /\ UNCHANGED << worktree_try, commits_try >>
       ELSE /\ git_pc' = "try"
            /\ worktree_try' = worktree
            /\ commits_try' = commits
            /\ UNCHANGED exit_status
    /\ UNCHANGED << commit_first, worktree, index, commits, changes0,
                    pipeline_vars, aar_vars, fetch_vars >>

\* update_gmaven(gmaven_artifacts), by what it leaves in the working tree:
\* it returns the updated keys after gmaven was replaced by the staging
\* directory, or returns [] after the downloads (sys.exit(1)), or raises with
\* artifact directories moved to the staging directory.
UpdateGmaven ==
    /\ git_pc = "try"
    /\ \E outcome \in {"updated", "nothing", "raised"},
          lib \in 0..MaxContent, download, staged \in {0, 1} :
          /\ outcome = "updated" => lib # 0 /\ staged = 0
          /\ outcome = "nothing" => lib = worktree[GmavenLib] /\ staged = 0
          /\ outcome = "raised" => lib \in {0, worktree[GmavenLib]}
          /\ worktree' = [worktree EXCEPT ![GmavenLib] = lib,
                                          ![GmavenDownload] = download,
                                          ![StagedLib] = staged]
          /\ IF outcome = "updated"
             THEN git_pc' = "import" /\ UNCHANGED exit_status
             ELSE git_pc' = "cleanup_add" /\ exit_status' = 1
    /\ UNCHANGED << commit_first, index, commits, changes0, worktree_try,
                    commits_try, pipeline_vars, aar_vars, fetch_vars >>

\* git add gmaven; git commit -q -m "Import ...": the commit raises when
\* nothing changed under gmaven.
ImportCommit ==
    /\ git_pc = "import"
    /\ index' = GitAddGmaven(worktree, index)
    /\ IF index' = HEAD(commits)
       THEN exit_status' = 1 /\ UNCHANGED commits
       ELSE exit_status' = 0 /\ commits' = Append(commits, index')
    /\ git_pc' = "cleanup_add"
    /\ UNCHANGED << commit_first, worktree, changes0, worktree_try, commits_try,
                    pipeline_vars, aar_vars, fetch_vars >>

\* finally: git add -Af .
CleanupAdd ==
    /\ git_pc = "cleanup_add"
    /\ index' = GitAddAll(worktree, index)
    /\ git_pc' = "cleanup_commit"
    /\ UNCHANGED << commit_first, worktree, commits, exit_status, changes0,
                    worktree_try, commits_try, pipeline_vars, aar_vars, fetch_vars >>

\* git commit -m 'COMMIT TO REVERT - RESET ME!!!' --allow-empty
CleanupCommit ==
    /\ git_pc = "cleanup_commit"
    /\ commits' = Append(commits, index)
    /\ git_pc' = "cleanup_reset"
    /\ UNCHANGED << commit_first, worktree, index, exit_status, changes0,
                    worktree_try, commits_try, pipeline_vars, aar_vars, fetch_vars >>

\* git reset --hard HEAD~1; then the script ends.
CleanupReset ==
    /\ git_pc = "cleanup_reset"
    /\ commits' = SubSeq(commits, 1, Len(commits) - 1)
    /\ index' = HEAD(commits')
    /\ worktree' = HEAD(commits')
    /\ git_pc' = "exited"
    /\ UNCHANGED << commit_first, exit_status, changes0, worktree_try,
                    commits_try, pipeline_vars, aar_vars, fetch_vars >>

GitNext ==
    \/ FirstCheck
    \/ Checkpoint
    \/ SecondCheck
    \/ UpdateGmaven
    \/ ImportCommit
    \/ CleanupAdd
    \/ CleanupCommit
    \/ CleanupReset

SpecGit == GitInit /\ [][GitNext]_vars

\* git reports changes: a tracked path differs between working tree and
\* index, or the index differs from HEAD.
TrackedChanges ==
    \/ \E p \in GitPaths : index[p] # 0 /\ worktree[p] # index[p]
    \/ index # commits[Len(commits)]

PipelineStarted == worktree_try # << >>

C6_CleanupRestoresPreRunState ==
    (git_pc = "exited" /\ PipelineStarted) =>
        /\ \/ exit_status # 0 /\ commits = commits_try
           \/ /\ exit_status = 0
              /\ Len(commits) = Len(commits_try) + 1
              /\ SubSeq(commits, 1, Len(commits_try)) = commits_try
        /\ worktree = commits[Len(commits)]
        /\ \A p \in GitPaths :
              (p \notin GmavenPaths \/ exit_status # 0) =>
                  worktree[p] = worktree_try[p]


\* ---------------------------------------------------------------------------
\* GMavenArtifact and fetch_gmaven_artifact
\* ---------------------------------------------------------------------------

\* The longest group of a coordinate, in dot-separated parts.
MaxGroupParts == 2

GMAVEN_BASE_URL ==
    << "h", "t", "t", "p", "s", ":", "/", "/", "d", "l", ".", "g", "o", "o",
       "g", "l", "e", ".", "c", "o", "m", "/", "d", "l", "/", "a", "n", "d",
       "r", "o", "i", "d", "/", "m", "a", "v", "e", "n", "2" >>

\* The literal 'gmaven' fetch_gmaven_artifact downloads below.
GmavenRoot == << "g", "m", "a", "v", "e", "n" >>

Latest == << "l", "a", "t", "e", "s", "t" >>

PomExt == << "p", "o", "m" >>

GroupIndexXml ==
    << "g", "r", "o", "u", "p", "-", "i", "n", "d", "e", "x", ".", "x", "m", "l" >>

GroupPartNames == << "a", "b", "c", "d" >>

\* The group of n parts: a, a.b, a.b.c, ...
RECURSIVE DottedGroup(_)
DottedGroup(n) ==
    IF n = 1 THEN << GroupPartNames[1] >>
    ELSE DottedGroup(n - 1) \o << ".", GroupPartNames[n] >>

FetchGroups == { DottedGroup(n) : n \in 1..MaxGroupParts }

FetchLibraries == { << "l", "i", "b" >>, << "c", "o", "r", "e" >> }

ConcreteVersions == { << "1", ".", "0", ".", "0" >>, << "1", ".", "1", ".", "0" >> }

FetchVersions == { << "1", ".", "0", ".", "0" >>, Latest }

FetchExtensions == { << "a", "a", "r" >>, << "j", "a", "r" >> }

\* The strings of gmaven_artifacts in the model: well-formed ones, one with
\* three fields and one with an empty version.
ArtifactGlobs ==
    { g \o << ":" >> \o l \o << ":" >> \o v \o << ":" >> \o e :
          g \in FetchGroups, l \in FetchLibraries, v \in FetchVersions,
          e \in FetchExtensions }
    \cup { << "a", ":", "l", "i", "b", ":", "1", ".", "0", ".", "0" >>,
           << "a", ":", "l", "i", "b", ":", ":", "a", "a", "r" >> }

\* str.split(sep): the fields between the separators, empty ones included.
RECURSIVE split(_, _)
split(s, sep) ==
    IF \A i \in 1..Len(s) : s[i] # sep THEN << s >>
    ELSE LET k == CHOOSE i \in 1..Len(s) :
                      s[i] = sep /\ \A j \in 1..(i - 1) : s[j] # sep
         IN  << SubSeq(s, 1, k - 1) >> \o split(SubSeq(s, k + 1, Len(s)), sep)

\* GMavenArtifact.__init__ raises ValueError.
GlobValueError(glob) ==
    LET fields == split(glob, ":")
    IN  \/ Len(fields) # 4
        \/ \E i \in 1..Len(fields) : fields[i] = << >>

\* GMavenArtifact.__init__ on a string it accepts.
GMavenArtifact(glob) ==
    LET fields == split(glob, ":")
    IN  [ group |-> fields[1],
          group_path |-> Replace(fields[1], ".", "/"),
          library |-> fields[2],
          key |-> fields[1] \o << ":" >> \o fields[2],
          version |-> fields[3],
          ext |-> fields[4] ]

\* '/'.join of the parts, as the f-strings and os.path.join build paths.
RECURSIVE join(_)
join(parts) ==
    IF Len(parts) = 1 THEN parts[1]
    ELSE parts[1] \o << "/" >> \o join(Tail(parts))

\* f'{library}-{version}.{ext}'
FileName(a, ext) == a.library \o << "-" >> \o a.version \o << "." >> \o ext

get_pom_file_url(a) ==
    join(<< GMAVEN_BASE_URL, a.group_path, a.library, a.version,
            FileName(a, PomExt) >>)

get_artifact_url(a) ==
    join(<< GMAVEN_BASE_URL, a.group_path, a.library, a.version,
            FileName(a, a.ext) >>)

group_index_url(a) == join(<< GMAVEN_BASE_URL, a.group_path, GroupIndexXml >>)

\* os.path.join('gmaven', artifact.group, artifact.library, artifact.version)
DownloadDir(a) == join(<< GmavenRoot, a.group, a.library, a.version >>)

\* os.path.dirname
dirname(path) ==
    LET slashes == { i \in 1..Len(path) : path[i] = "/" }
    IN  IF slashes = {} THEN << >>
        ELSE SubSeq(path, 1, (CHOOSE i \in slashes : \A j \in slashes : j <= i) - 1)

DiskEntry(path, is_dir) == [path |-> path, is_dir |-> is_dir]

\* os.makedirs(d): d and every missing ancestor; os.error when d exists.
makedirs(d, dir) ==
    d \cup { DiskEntry(SubSeq(dir, 1, k), TRUE) :
                k \in { i \in 1..Len(dir) : i = Len(dir) \/ dir[i + 1] = "/" } }

\* open(filepath, 'wb') and f.write(...)
WriteFile(d, filepath) == d \cup { DiskEntry(filepath, FALSE) }


\* What the current directory holds when the fetch begins: nothing, the
\* gmaven directory, or the gmaven directory with its Android.bp.
PriorDisks ==
    { {},
      makedirs({}, GmavenRoot),
      WriteFile(makedirs({}, GmavenRoot),
                join(<< GmavenRoot, << "A", "n", "d", "r", "o", "i", "d", ".", "b", "p" >> >>)) }

FetchInit ==
    /\ artifact_glob \in ArtifactGlobs
    /\ artifact = << >>
    /\ disk \in PriorDisks
    /\ disk0 = disk
    /\ requests = << >>
    /\ download_to = << >>
    /\ fetch_pc = "construct"
    /\ PipelineIdle
    /\ AarIdle
    /\ GitIdle

\* artifacts = [GMavenArtifact(artifact) for artifact in gmaven_artifacts]
Construct ==
    /\ fetch_pc = "construct"
    /\ IF GlobValueError(artifact_glob)
       THEN fetch_pc' = "raised" /\ UNCHANGED artifact
       ELSE fetch_pc' = "resolve" /\ artifact' = GMavenArtifact(artifact_glob)
    /\ UNCHANGED << artifact_glob, disk, disk0, requests, download_to,
                    pipeline_vars, aar_vars, git_vars >>

\* if artifact.version == 'latest': artifact.version = get_latest_version().
\* key_versions_map is empty, so the group index is requested: urlopen or the
\* lookup of the key may raise, otherwise the last listed version is taken.
ResolveLatest ==
    /\ fetch_pc = "resolve"
    /\ IF artifact.version = Latest
       THEN /\ requests' = Append(requests, group_index_url(artifact))
            /\ \E found \in BOOLEAN, v \in ConcreteVersions :
                  IF found
                  THEN /\ artifact' = [artifact EXCEPT !.version = v]
                       /\ fetch_pc' = "pom"
                  ELSE /\ fetch_pc' = "raised"
                       /\ UNCHANGED artifact
       ELSE /\ fetch_pc' = "pom"
            /\ UNCHANGED << artifact, requests >>
    /\ UNCHANGED << artifact_glob, disk, disk0, download_to,
                    pipeline_vars, aar_vars, git_vars >>

\* _DownloadFileToDisk(url, filepath) from position at; on success the run
\* goes on at position after. urlopen may raise before anything is written.
\* When open or write raises, os.remove of the directory raises in turn: the
\* directory stays, with or without the file.
DownloadFileToDisk(url, filepath, at, after) ==
    /\ fetch_pc = at
    /\ requests' = Append(requests, url)
    /\ \E outcome \in {"written", "urlopen raised", "open raised", "write raised"} :
          /\ disk' = CASE outcome = "urlopen raised" -> disk
                       [] outcome = "open raised" -> makedirs(disk, dirname(filepath))
                       [] OTHER -> WriteFile(makedirs(disk, dirname(filepath)), filepath)
          /\ fetch_pc' = IF outcome = "written" THEN after ELSE "raised"
    /\ UNCHANGED << artifact_glob, artifact, disk0, download_to,
                    pipeline_vars, aar_vars, git_vars >>

DownloadPom ==
    DownloadFileToDisk(get_pom_file_url(artifact),
                       join(<< DownloadDir(artifact), FileName(artifact, PomExt) >>),
                       "pom", "payload")

DownloadArtifact ==
    DownloadFileToDisk(get_artifact_url(artifact),
                       join(<< DownloadDir(artifact), FileName(artifact, artifact.ext) >>),
                       "payload", "return")

\* return download_to
FetchReturn ==
    /\ fetch_pc = "return"
    /\ download_to' = DownloadDir(artifact)
    /\ fetch_pc' = "done"
    /\ UNCHANGED << artifact_glob, artifact, disk, disk0, requests,
                    pipeline_vars, aar_vars, git_vars >>

FetchNext ==
    \/ Construct
    \/ ResolveLatest
    \/ DownloadPom
    \/ DownloadArtifact
    \/ FetchReturn

SpecFetch == FetchInit /\ [][FetchNext]_vars

\* The files on disk that were not there when the fetch began.
NewFiles == { e \in disk \ disk0 : ~e.is_dir }

\* The coordinate was given with a concrete version.
ConcreteVersionGiven ==
    /\ ~GlobValueError(artifact_glob)
    /\ GMavenArtifact(artifact_glob).version # Latest

\* <root>/<group-path>/<library>/<version>
GroupPathDir(a) == join(<< GmavenRoot, a.group_path, a.library, a.version >>)

\* C11: when fetch_gmaven_artifact has returned for a coordinate given with a
\* concrete version, the files it wrote are exactly the POM file and the
\* payload file, named <library>-<version>.pom and <library>-<version>.<ext>,
\* in the directory <root>/<group-path>/<library>/<version>, where group-path
\* is the group with its dots replaced by path separators, as in the URLs
\* that were requested.
C11_FetchedUnderGroupPath ==
    (fetch_pc = "done" /\ ConcreteVersionGiven) =>
        /\ NewFiles =
              { DiskEntry(join(<< GroupPathDir(artifact), FileName(artifact, PomExt) >>), FALSE),
                DiskEntry(join(<< GroupPathDir(artifact), FileName(artifact, artifact.ext) >>), FALSE) }
        /\ Cardinality(NewFiles) = 2
        /\ requests =
              << join(<< GMAVEN_BASE_URL, artifact.group_path, artifact.library,
                         artifact.version, FileName(artifact, PomExt) >>),
                 join(<< GMAVEN_BASE_URL, artifact.group_path, artifact.library,
                         artifact.version, FileName(artifact, artifact.ext) >>) >>

====
